---- MODULE Spec2Model ----
(***************************************************************************)
(* Static type checker for a small Java-like expression language           *)
(* (java_type_checker/expressions.py).                                     *)
(*                                                                         *)
(* The expression tree handed to the checker is the state `expr'; the      *)
(* operations are check_types() and static_type() on its root.  Both are   *)
(* translated as recursive operators that return what the Python call      *)
(* produces: a value, or the exception that leaves the call.  check_types  *)
(* also returns the ordered list of the steps it performed, so that        *)
(* statements about evaluation order can be checked.                       *)
(***************************************************************************)
EXTENDS Integers, Sequences, FiniteSets, TLC

\* Largest number of nodes of an expression tree handed to the checker.
MaxNodes == 4
\* Largest number of arguments of one call.
MaxArgs == 2

\* expr:     the expression tree the caller built
\* types:    the class hierarchy the caller built (name -> Type)
\* checked:  what the last expr.check_types() did
\* previous: what the expr.check_types() before the last one did
\* typed:    what the last expr.static_type() did
VARIABLES expr, types, checked, previous, typed

vars == <<expr, types, checked, previous, typed>>

(***************************************************************************)
(* Type model (java_type_checker/types.py, described in the design, 4.1).  *)
(* Types are referred to by name.                                          *)
(***************************************************************************)
NoType == "<none>"

NoMethods == [n \in {} |-> 0]

\* The class hierarchy supplied by the caller.
Hierarchy ==
    [ Object |-> [ name |-> "Object", supertype |-> NoType,
                   methods |-> [n \in {"toString"} |->
                       [name |-> "toString", argument_types |-> <<>>,
                        return_type |-> "Object"]],
                   constructor |-> [argument_types |-> <<>>],
                   is_instantiable |-> FALSE ],
      Animal |-> [ name |-> "Animal", supertype |-> "Object",
                   methods |-> [n \in {"feed"} |->
                       [name |-> "feed", argument_types |-> <<"Animal">>,
                        return_type |-> "void"]],
                   constructor |-> [argument_types |-> <<>>],
                   is_instantiable |-> TRUE ],
      Dog    |-> [ name |-> "Dog", supertype |-> "Animal",
                   methods |-> [n \in {"feed"} |->
                       [name |-> "feed", argument_types |-> <<"Animal", "null">>,
                        return_type |-> "Dog"]],
                   constructor |-> [argument_types |-> <<"null", "Animal">>],
                   is_instantiable |-> TRUE ],
      Pet    |-> [ name |-> "Pet", supertype |-> "Object",
                   methods |-> NoMethods,
                   constructor |-> [argument_types |-> <<"Animal">>],
                   is_instantiable |-> FALSE ],
      int    |-> [ name |-> "int", supertype |-> NoType,
                   methods |-> NoMethods,
                   constructor |-> [argument_types |-> <<>>],
                   is_instantiable |-> FALSE ],
      void   |-> [ name |-> "void", supertype |-> NoType,
                   methods |-> NoMethods,
                   constructor |-> [argument_types |-> <<>>],
                   is_instantiable |-> FALSE ],
      null   |-> [ name |-> "null", supertype |-> NoType,
                   methods |-> NoMethods,
                   constructor |-> [argument_types |-> <<>>],
                   is_instantiable |-> FALSE ] ]

\* Type.object and Type.null, the two distinguished values.
Type_object == "Object"
Type_null == "null"

RECURSIVE reaches(_, _)
\* Walking t's supertype chain reaches other.
reaches(t, other) ==
    IF t = other THEN TRUE
    ELSE IF types[t].supertype = NoType THEN FALSE
    ELSE reaches(types[t].supertype, other)

\* A reference type: a class or interface, rooted at Object.
is_reference(t) == reaches(t, Type_object)

is_subtype_of(t, other) ==
    \/ t = other
    \/ t = Type_null /\ is_reference(other)
    \/ reaches(t, other)

RECURSIVE method_named(_, _)
\* Nearest declaration of `name' along the supertype chain; a failed lookup
\* is a type error.
method_named(t, name) ==
    IF name \in DOMAIN types[t].methods
      THEN [err |-> "none", msg |-> "", sig |-> types[t].methods[name]]
    ELSE IF types[t].supertype = NoType
      THEN [err |-> "JavaTypeError",
            msg |-> t \o " has no method named " \o name,
            sig |-> [name |-> name, argument_types |-> <<>>, return_type |-> NoType]]
    ELSE method_named(types[t].supertype, name)

constructor(t) == types[t].constructor

is_instantiable(t) == types[t].is_instantiable

(***************************************************************************)
(* Expression nodes (expressions.py).                                      *)
(***************************************************************************)
Variable(name, declared_type) ==
    [kind |-> "Variable", name |-> name, declared_type |-> declared_type]

Literal(value, type) ==
    [kind |-> "Literal", value |-> value, type |-> type]

NullLiteral ==
    [kind |-> "NullLiteral", value |-> "null", type |-> Type_null]

MethodCall(receiver, method_name, args) ==
    [kind |-> "MethodCall", receiver |-> receiver,
     method_name |-> method_name, args |-> args]

ConstructorCall(instantiated_type, args) ==
    [kind |-> "ConstructorCall", instantiated_type |-> instantiated_type,
     args |-> args]

IsLeaf(e) == e.kind \in {"Variable", "Literal", "NullLiteral"}

\* The trees the caller builds.
Leaves ==
    {Variable("x", "Dog"), Literal("5", "int"), NullLiteral}

MethodNames == {"toString", "feed", "fly"}

CtorTargets == {"Object", "Animal", "Dog", "Pet"}

Min(a, b) == IF a < b THEN a ELSE b

RECURSIVE ExprsOfSize(_), ArgLists(_, _)
\* Sequences of k expressions with n nodes in total.
ArgLists(k, n) ==
    IF k = 0 THEN (IF n = 0 THEN {<<>>} ELSE {})
    ELSE UNION { { <<e>> \o rest : e \in ExprsOfSize(s), rest \in ArgLists(k - 1, n - s) }
                 : s \in 1..(n - (k - 1)) }

\* Expression trees of exactly n nodes.
ExprsOfSize(n) ==
    IF n < 1 THEN {}
    ELSE (IF n = 1 THEN Leaves ELSE {})
         \cup UNION { { ConstructorCall(t, a) : t \in CtorTargets, a \in ArgLists(k, n - 1) }
                      : k \in 0..Min(MaxArgs, n - 1) }
         \cup UNION { UNION { { MethodCall(r, m, a) : r \in ExprsOfSize(s), m \in MethodNames,
                                                     a \in ArgLists(k, n - 1 - s) }
                              : k \in 0..Min(MaxArgs, n - 1 - s) }
                      : s \in 1..(n - 1) }

\* e is a tree of exactly n nodes.
IsExprOfSize(e, n) ==
    \/ n = 1 /\ e \in Leaves
    \/ \E t \in CtorTargets, k \in 0..Min(MaxArgs, n - 1) :
          \E a \in ArgLists(k, n - 1) : e = ConstructorCall(t, a)
    \/ \E s \in 1..(n - 1), m \in MethodNames :
          \E r \in ExprsOfSize(s), k \in 0..Min(MaxArgs, n - 1 - s) :
            \E a \in ArgLists(k, n - 1 - s) : e = MethodCall(r, m, a)

(***************************************************************************)
(* static_type()                                                           *)
(***************************************************************************)
Value(t) == [err |-> "none", msg |-> "", type |-> t]

RECURSIVE static_type(_)
MethodCall_static_type(e) ==
    LET r == static_type(e.receiver) IN
    IF r.err # "none" THEN r
    ELSE LET m == method_named(r.type, e.method_name) IN
         IF m.err # "none" THEN [err |-> m.err, msg |-> m.msg, type |-> NoType]
         ELSE Value(m.sig.return_type)

ConstructorCall_static_type(e) == Value(e.instantiated_type)

Variable_static_type(e) == Value(e.declared_type)

Literal_static_type(e) == Value(e.type)

static_type(e) ==
    CASE e.kind = "Variable" -> Variable_static_type(e)
      [] e.kind \in {"Literal", "NullLiteral"} -> Literal_static_type(e)
      [] e.kind = "MethodCall" -> MethodCall_static_type(e)
      [] e.kind = "ConstructorCall" -> ConstructorCall_static_type(e)

RECURSIVE join(_)
\* ", ".join(ns)
join(ns) ==
    IF Len(ns) = 0 THEN ""
    ELSE IF Len(ns) = 1 THEN ns[1]
    ELSE ns[1] \o ", " \o join(Tail(ns))

\* names(named_things): "(" + ", ".join(e.name ...) + ")"
names(named_things) ==
    "(" \o join([i \in 1..Len(named_things) |-> types[named_things[i]].name]) \o ")"

\* [a.static_type() for a in args]; the first exception leaves the comprehension.
RECURSIVE static_types(_)
static_types(args) ==
    IF Len(args) = 0 THEN [err |-> "none", msg |-> "", types |-> <<>>]
    ELSE LET h == static_type(Head(args)) IN
         IF h.err # "none" THEN [err |-> h.err, msg |-> h.msg, types |-> <<>>]
         ELSE LET t == static_types(Tail(args)) IN
              IF t.err # "none" THEN t
              ELSE [err |-> "none", msg |-> "", types |-> <<h.type>> \o t.types]

(***************************************************************************)
(* check_types()                                                           *)
(*                                                                         *)
(* A result is [err, msg, at, log]: the exception kind ("none" on a normal *)
(* return), its message, the node whose code raised it, and the steps      *)
(* performed so far.  A node is named by its path from the root: the       *)
(* receiver of a MethodCall is child 0, argument i is child i.  A step is  *)
(* <<path, what, index>>.                                                  *)
(***************************************************************************)
Returns(log) == [err |-> "none", msg |-> "", at |-> <<>>, log |-> log]

Raises(kind, msg, path, log) == [err |-> kind, msg |-> msg, at |-> path, log |-> log]

Step(log, path, what, i) == Append(log, <<path, what, i>>)

RECURSIVE check_types(_, _, _), check_each(_, _, _, _), compare_args(_, _, _, _, _, _)

\* Mutation of check_each: the loop is left after its first child.
check_each_first(kids, j, path, log) ==
    IF j > Len(kids) THEN Returns(log)
    ELSE check_types(kids[j][2], Append(path, kids[j][1]), log)

\* for child in ...: child.check_types()   -- kids[j] is <<index of the child, child>>
check_each(kids, j, path, log) ==
    IF j > Len(kids) THEN Returns(log)
    ELSE LET r == check_types(kids[j][2], Append(path, kids[j][1]), log) IN
         IF r.err # "none" THEN r
         ELSE check_each(kids, j + 1, path, r.log)

\* Mutation of arg_accepted: the argument's type must be the parameter's type.
arg_accepted_exact(arg_type, expected_type) == arg_type = expected_type

\* Mutation of arg_accepted: the subtype test the wrong way round.
arg_accepted_flipped(arg_type, expected_type) == is_subtype_of(expected_type, arg_type)

\* The test of lines 121 and 169, on the argument's static type.
arg_accepted(arg_type, expected_type) == is_subtype_of(arg_type, expected_type)

\* Mutation of wrong_arity: only too few arguments are refused.
wrong_arity_fewer(expected, args) == Len(expected) > Len(args)

\* The test of lines 111 and 160.
wrong_arity(expected, args) == Len(expected) # Len(args)

\* Mutation of actual_types: only the refused argument is reported.
actual_types_failing(args, i) == static_types(<<args[i]>>)

\* The types reported by a mismatch at argument i (lines 127 and 174):
\* [a.static_type() for a in self.args].
actual_types(args, i) == static_types(args)

\* Mutation of has_methods: the receiver is not tested.
has_methods_any(receiver_type) == TRUE

\* The test of line 105.
has_methods(receiver_type) == is_subtype_of(receiver_type, Type_object)

\* Mutation of may_instantiate: the flag is not tested.
may_instantiate_any(t) == TRUE

\* The test of line 154.
may_instantiate(t) == is_instantiable(t)

\* Mutation of lookup: a failed lookup is caught and read as "no parameters".
lookup_lenient(receiver_type, name) ==
    LET m == method_named(receiver_type, name) IN
    IF m.err # "none" THEN [m EXCEPT !.err = "none", !.msg = ""] ELSE m

\* The lookup of line 110; its exception is not caught.
lookup(receiver_type, name) == method_named(receiver_type, name)

\* for i in range(0, len(expected)): if not args[i].static_type().is_subtype_of(expected[i]): raise
compare_args(args, expected, i, mismatch, path, log) ==
    IF i > Len(expected) THEN Returns(log)
    ELSE LET a == static_type(args[i])
             log1 == Step(log, path, "compare", i) IN
         IF a.err # "none" THEN Raises(a.err, a.msg, path, log1)
         ELSE IF ~arg_accepted(a.type, expected[i])
           THEN LET all == actual_types(args, i) IN
                IF all.err # "none" THEN Raises(all.err, all.msg, path, log1)
                ELSE Raises("JavaTypeError",
                            mismatch \o names(expected) \o ", but got " \o names(all.types),
                            path, log1)
         ELSE compare_args(args, expected, i + 1, mismatch, path, log1)

\* MethodCall.check_types, after the children: lines 102-127.
MethodCall_validate(e, path, log) ==
    LET r == static_type(e.receiver) IN
    IF r.err # "none" THEN Raises(r.err, r.msg, path, log)
    ELSE
    LET receiver_type == r.type
        log1 == Step(log, path, "has_methods", 0) IN
    IF ~has_methods(receiver_type)
      THEN Raises("JavaTypeError",
                  "Type " \o types[receiver_type].name \o " does not have methods",
                  path, log1)
    ELSE
    LET m == lookup(receiver_type, e.method_name)
        log2 == Step(log1, path, "method_named", 0) IN
    IF m.err # "none" THEN Raises(m.err, m.msg, path, log2)
    ELSE
    LET expected_arg_types == m.sig.argument_types
        log3 == Step(log2, path, "arity", 0) IN
    IF wrong_arity(expected_arg_types, e.args)
      THEN Raises("JavaTypeError",
                  "Wrong number of arguments for " \o types[receiver_type].name
                    \o "." \o e.method_name \o "(): expected "
                    \o ToString(Len(expected_arg_types)) \o ", got "
                    \o ToString(Len(e.args)),
                  path, log3)
    ELSE compare_args(e.args, expected_arg_types, 1,
                      types[receiver_type].name \o "." \o e.method_name
                        \o "() expects arguments of type ",
                      path, log3)

\* Mutation of MethodCall_children: the arguments before the receiver.
MethodCall_children_args_first(e) ==
    [i \in 1..Len(e.args) |-> <<i, e.args[i]>>] \o <<(<<0, e.receiver>>)>>

\* The children MethodCall.check_types visits, in its order (lines 98-100):
\* the receiver (child 0), then the arguments (children 1..n).
MethodCall_children(e) ==
    <<(<<0, e.receiver>>)>> \o [i \in 1..Len(e.args) |-> <<i, e.args[i]>>]

\* MethodCall.check_types: lines 92-127.
MethodCall_check_types(e, path, log) ==
    LET kids == check_each(MethodCall_children(e), 1, path, log) IN
    IF kids.err # "none" THEN kids
    ELSE MethodCall_validate(e, path, kids.log)

\* ConstructorCall.check_types, after the children: lines 153-174.
ConstructorCall_validate(e, path, log) ==
    LET log1 == Step(log, path, "is_instantiable", 0) IN
    IF ~may_instantiate(e.instantiated_type)
      THEN Raises("JavaTypeError",
                  "Type " \o types[e.instantiated_type].name \o " is not instantiable",
                  path, log1)
    ELSE
    LET expected_arg_types == constructor(e.instantiated_type).argument_types
        log2 == Step(Step(log1, path, "constructor", 0), path, "arity", 0) IN
    IF wrong_arity(expected_arg_types, e.args)
      THEN Raises("JavaTypeError",
                  "Wrong number of arguments for " \o types[e.instantiated_type].name
                    \o " constructor: expected " \o ToString(Len(expected_arg_types))
                    \o ", got " \o ToString(Len(e.args)),
                  path, log2)
    ELSE compare_args(e.args, expected_arg_types, 1,
                      types[e.instantiated_type].name
                        \o " constructor expects arguments of type ",
                      path, log2)

\* The children ConstructorCall.check_types visits, in its order (lines 150-151).
ConstructorCall_children(e) == [i \in 1..Len(e.args) |-> <<i, e.args[i]>>]

\* ConstructorCall.check_types: lines 144-174.
ConstructorCall_check_types(e, path, log) ==
    LET kids == check_each(ConstructorCall_children(e), 1, path, log) IN
    IF kids.err # "none" THEN kids
    ELSE ConstructorCall_validate(e, path, kids.log)

\* Variable.check_types and Literal.check_types: return.
Variable_check_types(e, path, log) == Returns(log)

Literal_check_types(e, path, log) == Returns(log)

\* e.check_types(), dispatched on the class of e.  The call is logged when it
\* starts and when it returns normally.
check_types(e, path, log) ==
    LET log1 == Step(log, path, "check_types", 0)
        r == CASE e.kind = "Variable" -> Variable_check_types(e, path, log1)
               [] e.kind \in {"Literal", "NullLiteral"} -> Literal_check_types(e, path, log1)
               [] e.kind = "MethodCall" -> MethodCall_check_types(e, path, log1)
               [] e.kind = "ConstructorCall" -> ConstructorCall_check_types(e, path, log1)
    IN IF r.err # "none" THEN r
       ELSE Returns(Step(r.log, path, "return", 0))

(***************************************************************************)
(* State machine: the caller builds a tree, then calls check_types() and   *)
(* static_type() on its root, any number of times.                         *)
(***************************************************************************)
NotCalled == [err |-> "not called"]

Init ==
    /\ \E n \in 1..MaxNodes : IsExprOfSize(expr, n)
    /\ types = Hierarchy
    /\ checked = NotCalled
    /\ previous = NotCalled
    /\ typed = NotCalled

\* Mutation of CheckTypes: the walk consumes the arguments of the root.
CheckTypes_consuming ==
    /\ checked' = check_types(expr, <<>>, <<>>)
    /\ previous' = checked
    /\ expr' = IF IsLeaf(expr) THEN expr ELSE [expr EXCEPT !.args = <<>>]
    /\ UNCHANGED <<types, typed>>

\* expr.check_types()
CheckTypes ==
    /\ checked' = check_types(expr, <<>>, <<>>)
    /\ previous' = checked
    /\ UNCHANGED <<expr, types, typed>>

\* expr.static_type()
StaticType ==
    /\ typed' = static_type(expr)
    /\ UNCHANGED <<expr, types, checked, previous>>

Next == CheckTypes \/ StaticType

Spec == Init /\ [][Next]_vars

(***************************************************************************)
(* What the properties speak about.                                        *)
(***************************************************************************)
Called == checked # NotCalled

IsCall(e) == e.kind \in {"MethodCall", "ConstructorCall"}

\* The children of a node with their indices, in source order.
Kids(e) ==
    CASE e.kind = "MethodCall" ->
           <<(<<0, e.receiver>>)>> \o [i \in 1..Len(e.args) |-> <<i, e.args[i]>>]
      [] e.kind = "ConstructorCall" -> [i \in 1..Len(e.args) |-> <<i, e.args[i]>>]
      [] OTHER -> <<>>

TypeOf(e) == static_type(e).type

\* The type whose signature a call is matched against.
Target(e) ==
    IF e.kind = "MethodCall" THEN TypeOf(e.receiver) ELSE e.instantiated_type

\* The call gets as far as a signature: the receiver has methods and one of
\* them has the name, or the target is instantiable.
HasSignature(e) ==
    IF e.kind = "MethodCall"
      THEN /\ is_subtype_of(Target(e), Type_object)
           /\ method_named(Target(e), e.method_name).err = "none"
      ELSE is_instantiable(e.instantiated_type)

\* The declared parameter types of a call.
Params(e) ==
    IF e.kind = "MethodCall"
      THEN method_named(Target(e), e.method_name).sig.argument_types
      ELSE constructor(e.instantiated_type).argument_types

ArgTypes(e) == [i \in 1..Len(e.args) |-> TypeOf(e.args[i])]

Mismatches(e) ==
    {i \in 1..Len(e.args) : ~is_subtype_of(ArgTypes(e)[i], Params(e)[i])}

\* The constraints of the node itself, its children being well typed.
OwnOk(e) ==
    \/ IsLeaf(e)
    \/ /\ IsCall(e)
       /\ HasSignature(e)
       /\ Len(Params(e)) = Len(e.args)
       /\ Mismatches(e) = {}

RECURSIVE WellTyped(_)
\* Every pairing in the tree is type-compatible.
WellTyped(e) ==
    /\ \A k \in 1..Len(Kids(e)) : WellTyped(Kids(e)[k][2])
    /\ OwnOk(e)

KidsOk(e) == \A k \in 1..Len(Kids(e)) : WellTyped(Kids(e)[k][2])

RECURSIVE Subtrees(_)
Subtrees(e) == {e} \cup UNION {Subtrees(Kids(e)[k][2]) : k \in 1..Len(Kids(e))}

NoPath == <<-1>>

RECURSIVE Postorder(_, _), PostorderKids(_, _, _)
\* The nodes of e, children before parents, left to right.
PostorderKids(kids, j, path) ==
    IF j > Len(kids) THEN <<>>
    ELSE Postorder(kids[j][2], Append(path, kids[j][1])) \o PostorderKids(kids, j + 1, path)

Postorder(e, path) == PostorderKids(Kids(e), 1, path) \o <<path>>

RECURSIVE FirstBad(_, _), FirstBadKid(_, _, _)
\* The first node in postorder whose own constraints fail, or NoPath.
FirstBadKid(kids, j, path) ==
    IF j > Len(kids) THEN NoPath
    ELSE LET b == FirstBad(kids[j][2], Append(path, kids[j][1])) IN
         IF b # NoPath THEN b ELSE FirstBadKid(kids, j + 1, path)

FirstBad(e, path) ==
    LET b == FirstBadKid(Kids(e), 1, path) IN
    IF b # NoPath THEN b ELSE IF OwnOk(e) THEN NoPath ELSE path

RECURSIVE NodeAt(_, _)
NodeAt(e, path) ==
    IF path = <<>> THEN e
    ELSE NodeAt(IF Head(path) = 0 THEN e.receiver ELSE e.args[Head(path)], Tail(path))

IsPrefix(p, q) == Len(p) <= Len(q) /\ SubSeq(q, 1, Len(p)) = p

Position(seq, x) == CHOOSE i \in 1..Len(seq) : seq[i] = x

\* The steps of one kind, as the nodes they were taken at, in order.
PathsOf(log, what) ==
    LET sel == SelectSeq(log, LAMBDA s : s[2] = what) IN [i \in 1..Len(sel) |-> sel[i][1]]

\* The steps taken at one node, in order.
StepsAt(log, path) == SelectSeq(log, LAMBDA s : s[1] = path)

Did(log, path, what) == \E i \in 1..Len(log) : log[i][1] = path /\ log[i][2] = what

Range(seq) == {seq[i] : i \in 1..Len(seq)}

Last(seq) == seq[Len(seq)]

FailedAtRoot == Called /\ checked.err = "JavaTypeError" /\ checked.at = <<>>

\* "Dog.feed()" or "Dog constructor", as the messages name a call.
CallName(e) ==
    IF e.kind = "MethodCall"
      THEN types[Target(e)].name \o "." \o e.method_name \o "()"
      ELSE types[Target(e)].name \o " constructor"

ArityMessage(e) ==
    "Wrong number of arguments for " \o CallName(e)
      \o ": expected " \o ToString(Len(Params(e))) \o ", got " \o ToString(Len(e.args))

MismatchMessage(e) ==
    CallName(e) \o " expects arguments of type " \o names(Params(e))
      \o ", but got " \o names(ArgTypes(e))

(***************************************************************************)
(* Properties.                                                             *)
(***************************************************************************)

\* C1: check_types() on a tree in which every receiver, method, constructor
\* and argument pairing is type-compatible returns normally.
C1_WellTypedPasses ==
    (Called /\ WellTyped(expr)) => checked.err = "none"

C1_Witness ==
    /\ Called /\ WellTyped(expr)
    /\ expr.kind = "MethodCall" /\ Len(expr.args) = 2
    /\ ArgTypes(expr) = <<"Dog", Type_null>>
    /\ checked.err = "none"

\* C2: a call whose children pass and which has a signature, but whose
\* argument count differs from the declared parameter count, fails with the
\* arity error giving both counts; no argument is compared with a parameter.
C2_ArityError ==
    (Called /\ IsCall(expr) /\ KidsOk(expr) /\ HasSignature(expr)
        /\ Len(Params(expr)) # Len(expr.args))
    => /\ FailedAtRoot
       /\ checked.msg = ArityMessage(expr)
       /\ ~Did(checked.log, <<>>, "compare")

\* Too few arguments to a method, the one given being of an accepted type.
C2_Witness ==
    /\ Called /\ expr.kind = "MethodCall" /\ KidsOk(expr) /\ HasSignature(expr)
    /\ Len(Params(expr)) = 2 /\ Len(expr.args) = 1
    /\ is_subtype_of(ArgTypes(expr)[1], Params(expr)[1])
    /\ checked.msg = "Wrong number of arguments for Dog.feed(): expected 2, got 1"

\* The mismatch outcome of C3: one error, raised by the root at its lowest
\* refused index, naming the call and both full type sequences; no later
\* index is compared.
MismatchOutcome ==
    LET k == CHOOSE i \in Mismatches(expr) : \A j \in Mismatches(expr) : i <= j
        compared == SelectSeq(checked.log, LAMBDA s : s[1] = <<>> /\ s[2] = "compare")
    IN /\ FailedAtRoot
       /\ checked.msg = MismatchMessage(expr)
       /\ compared = [i \in 1..k |-> <<<<>>, "compare", i>>]
       /\ Last(checked.log) = <<<<>>, "compare", k>>

\* C3 as stated: a call with matching argument count whose children pass and
\* one of whose arguments is not a subtype of its parameter fails with the
\* mismatch error.
C3_AsStated ==
    (Called /\ IsCall(expr) /\ KidsOk(expr)
        /\ (expr.kind = "MethodCall" => HasSignature(expr))
        /\ Len(Params(expr)) = Len(expr.args) /\ Mismatches(expr) # {})
    => MismatchOutcome

\* C3, amended: the same for a MethodCall, and for a ConstructorCall of an
\* instantiable type.
C3_MismatchError ==
    (Called /\ IsCall(expr) /\ KidsOk(expr) /\ HasSignature(expr)
        /\ Len(Params(expr)) = Len(expr.args) /\ Mismatches(expr) # {})
    => MismatchOutcome

\* Two refused arguments: only the first is compared.
C3_Witness ==
    /\ Called /\ IsCall(expr) /\ KidsOk(expr) /\ HasSignature(expr)
    /\ Len(Params(expr)) = Len(expr.args)
    /\ Mismatches(expr) = {1, 2}
    /\ checked.err = "JavaTypeError"

\* C4: a MethodCall whose children pass and whose receiver's static type is
\* not a subtype of Object fails with "does not have methods", before the
\* method is looked up, the arity tested or an argument compared.
C4_NoMethods ==
    (Called /\ expr.kind = "MethodCall" /\ KidsOk(expr)
        /\ ~is_subtype_of(TypeOf(expr.receiver), Type_object))
    => /\ FailedAtRoot
       /\ checked.msg = "Type " \o types[TypeOf(expr.receiver)].name \o " does not have methods"
       /\ ~Did(checked.log, <<>>, "method_named")
       /\ ~Did(checked.log, <<>>, "arity")
       /\ ~Did(checked.log, <<>>, "compare")

\* A method nobody declares, called on the void result of a passing call.
C4_Witness ==
    /\ Called /\ expr.kind = "MethodCall" /\ KidsOk(expr)
    /\ TypeOf(expr.receiver) = "void" /\ expr.method_name = "fly"
    /\ checked.msg = "Type void does not have methods"

\* C5: a ConstructorCall whose arguments pass and whose type is not
\* instantiable fails with "is not instantiable", whatever the arguments; the
\* constructor signature is not read before the test.
C5_NotInstantiable ==
    (Called /\ expr.kind = "ConstructorCall" /\ KidsOk(expr)
        /\ ~is_instantiable(expr.instantiated_type))
    => /\ FailedAtRoot
       /\ checked.msg = "Type " \o types[expr.instantiated_type].name \o " is not instantiable"
       /\ ~Did(checked.log, <<>>, "constructor")

\* The arguments match the constructor signature in count and type.
C5_Witness ==
    /\ Called /\ expr.kind = "ConstructorCall" /\ KidsOk(expr)
    /\ ~is_instantiable(expr.instantiated_type)
    /\ Len(expr.args) = 1 /\ Len(Params(expr)) = 1 /\ Mismatches(expr) = {}
    /\ checked.err = "JavaTypeError"

C7_FailFastPostorder ==
    Called =>
      LET bad == FirstBad(expr, <<>>)
          post == Postorder(expr, <<>>)
          returned == PathsOf(checked.log, "return")
          started == PathsOf(checked.log, "check_types")
      IN /\ IF bad = NoPath
              THEN checked.err = "none" /\ returned = post
              ELSE /\ checked.err # "none" /\ checked.at = bad
                   /\ returned = SubSeq(post, 1, Position(post, bad) - 1)
                   /\ Range(started) = Range(returned) \cup {p \in Range(post) : IsPrefix(p, bad)}
         /\ \A i \in 1..Len(checked.log) :
              checked.log[i][2] \in {"has_methods", "is_instantiable"} =>
                \A k \in 1..Len(Kids(NodeAt(expr, checked.log[i][1]))) :
                  \E j \in 1..(i - 1) :
                    checked.log[j] = <<Append(checked.log[i][1],
                                              Kids(NodeAt(expr, checked.log[i][1]))[k][1]),
                                       "return", 0>>

\* The receiver and an argument both violate, and so does the call itself:
\* the receiver's error is the one raised.
C7_Witness ==
    /\ Called /\ expr.kind = "MethodCall" /\ Len(expr.args) >= 1
    /\ ~WellTyped(expr.receiver) /\ ~WellTyped(expr.args[1])
    /\ checked.err = "JavaTypeError" /\ checked.at = <<0>>

\* C8: in the argument comparison of a call, a null-typed argument is
\* accepted wherever the parameter type is a subtype of Object, and an
\* argument of a reference type is refused where the parameter type is the
\* null type.
C8_NullAsymmetry ==
    (Called /\ IsCall(expr) /\ KidsOk(expr) /\ HasSignature(expr)
        /\ Len(Params(expr)) = Len(expr.args))
    => \A i \in 1..Len(expr.args) :
         (\E n \in 1..Len(checked.log) : checked.log[n] = <<<<>>, "compare", i>>)
         => LET refused == FailedAtRoot /\ Last(checked.log) = <<<<>>, "compare", i>>
            IN /\ (ArgTypes(expr)[i] = Type_null
                     /\ is_subtype_of(Params(expr)[i], Type_object)) => ~refused
               /\ (is_reference(ArgTypes(expr)[i]) /\ Params(expr)[i] = Type_null) => refused

\* dog.feed(null, dog) against feed(Animal, null): null is accepted for the
\* Animal parameter, then the Dog is refused for the null-typed one.
C8_Witness ==
    /\ Called /\ expr.kind = "MethodCall" /\ KidsOk(expr) /\ HasSignature(expr)
    /\ ArgTypes(expr) = <<Type_null, "Dog">>
    /\ Params(expr) = <<"Animal", Type_null>>
    /\ FailedAtRoot /\ Last(checked.log) = <<<<>>, "compare", 2>>

C10_PassingIsSound ==
    (Called /\ checked.err = "none")
    => /\ WellTyped(expr)
       /\ \A n \in Subtrees(expr) :
            /\ static_type(n).err = "none"
            /\ OwnOk(n)
            /\ n.kind = "MethodCall" =>
                 static_type(n).type
                   = method_named(TypeOf(n.receiver), n.method_name).sig.return_type
            /\ n.kind = "ConstructorCall" => static_type(n).type = n.instantiated_type
       /\ (typed # NotCalled => typed.err = "none")

\* A passing method call on the result of a method call on a constructed
\* object.
C10_Witness ==
    /\ Called /\ checked.err = "none" /\ typed # NotCalled
    /\ expr.kind = "MethodCall" /\ expr.receiver.kind = "MethodCall"
    /\ expr.receiver.receiver.kind = "ConstructorCall"
    /\ typed.type = "Object"

====
